---------------------------- MODULE Spec2Model ----------------------------
(***************************************************************************)
(* Model of the document-processing job pipeline:                          *)
(*   - JobQueue (src/src/api/services/document/job_queue.py)              *)
(*   - the stage orchestrator (src/src/api/routers/document.py)           *)
(*   - retry_with_backoff (src/src/api/services/document/retry_handler.py)*)
(*                                                                         *)
(* The queue is modelled at the granularity of its suspension points: a   *)
(* coroutine runs without interruption between two awaited Redis calls,   *)
(* so every action below is "one awaited Redis call plus the local code   *)
(* up to the next await (or the return)".  Every Redis call may raise      *)
(* (parameter ok = FALSE), which the code catches.                         *)
(***************************************************************************)
EXTENDS Integers, Sequences, FiniteSets, TLC

\* ------------------------------------------------------------------ bounds
MaxJobs == 2
MaxPriority == 1
MaxMaxRetries == 1
MaxCalls == 4
MaxStableCalls == 5
MaxWrites == 3
MaxRetriesArg == 2
MaxInitialDelay == 2
MaxBase == 2
MaxMaxDelay == 3
MaxThreshold == 2
MaxRecoveryTimeout == 2
MaxHalfOpenCalls == 2
MaxTime == 4
MaxBreakerCalls == 5
MaxApplications == 3
MaxRuns == 2

JobIds == 1..MaxJobs
Priorities == 0..MaxPriority
MaxRetriesArgs == 0..MaxMaxRetries
Documents == 1 .. MaxJobs

\* Exception types an operation may raise.  ConnectionRefusedError is a
\* subclass of ConnectionError; CancelledError derives from BaseException
\* and not from Exception; the others derive from Exception directly (as far
\* as the types here are concerned).
ExceptionTypes ==
    {"TimeoutError", "ConnectionError", "ConnectionRefusedError", "ValueError",
     "CancelledError"}
BaseOf(e) == IF e = "ConnectionRefusedError" THEN "ConnectionError" ELSE e
IsInstance(e, exc_type) == e = exc_type \/ BaseOf(e) = exc_type
IsException(e) == e # "CancelledError"

\* RetryConfig.__init__: `retryable_exceptions or [...]` puts the default
\* list in the place of None and of an empty list.
DefaultRetryable == {"TimeoutError", "ConnectionError"}
RetryConfig(max_retries, initial_delay, max_delay, exponential_base, retryable_exceptions) ==
    [max_retries |-> max_retries, initial_delay |-> initial_delay,
     max_delay |-> max_delay, exponential_base |-> exponential_base,
     retryable_exceptions |->
         IF retryable_exceptions = {} THEN DefaultRetryable ELSE retryable_exceptions]

\* The configurations a call is made with.
RetryConfigs ==
    {RetryConfig(m, i, x, b, r) :
        m \in 0 .. MaxRetriesArg, i \in 1 .. MaxInitialDelay, x \in 1 .. MaxMaxDelay,
        b \in 1 .. MaxBase, r \in {{}, {"TimeoutError"}, {"ValueError", "ConnectionError"}}}

\* The stages save_extraction_result is called with here, and the keys of
\* the three result tables.
ResultStages == {"ocr_extraction", "llm_processing"}
ResultKeys ==
    {<<"extraction_results", d, st>> : d \in Documents, st \in ResultStages}
        \cup {<<t, d>> : t \in {"quality_scores", "routing_decisions"}, d \in Documents}

\* The values a save call is given: two dictionaries of JSON values, and a
\* dictionary holding a datetime, which json.dumps does not accept.
ResultValues == {"a", "b", "datetime"}
Tasks == {1, 2}
Inst == {"a", "b"}

\* ------------------------------------------------------------- JobStatus
PENDING == "pending"
QUEUED == "queued"
PROCESSING == "processing"
COMPLETED == "completed"
FAILED == "failed"
RETRYING == "retrying"
CANCELLED == "cancelled"
JobStatus == {PENDING, QUEUED, PROCESSING, COMPLETED, FAILED, RETRYING, CANCELLED}

\* The statuses callers pass to update_job_status in this model: one that
\* ends a job, and the one that makes it eligible for dequeue_job again.
StatusArgs == {CANCELLED, PENDING}

\* None, for a job dictionary.
NoJob == [status |-> "none", priority |-> 0, max_retries |-> 0, retry_count |-> 0]

\* The job dictionary enqueue_job builds (type, data and timestamps left out).
NewJob(priority, max_retries) ==
    [status |-> PENDING, priority |-> priority,
     max_retries |-> max_retries, retry_count |-> 0]

VARIABLES
    queue,    \* queue[i]: the JobQueue object i and the Redis server behind it
    task,     \* task[i][t]: the coroutine t running a JobQueue method on i
    last,     \* last[i]: the call on i that returned most recently
    nretry,   \* nretry[i][j]: retry_job calls on the enqueued job j that returned
    ncalls,   \* ncalls[i]: calls started on i
    call,     \* the call a driver issues to both queues (SpecPair)
    started,  \* the queues that have started that call (SpecPair)
    pipe,     \* the run of process_document_background and its stores
    runs,     \* the uploads and the pipeline runs they start (SpecUpload)
    db,       \* the result tables and the save call in progress (SpecResults)
    retry,    \* the frame of a retry_with_backoff call (SpecRetry)
    breaker,  \* a CircuitBreaker, its callers and the clock (SpecBreaker)
    applied   \* the stage-completed updates applied (SpecCompletion)

qvars == <<queue, task, last, nretry, ncalls>>
dvars == <<runs, db, retry, breaker, applied>>
pvars == <<call, started, dvars>>

\* JobQueue.__init__ and initialize(): redis_available is decided once.
\*   redis          the keyed records doc_job:<id>
\*   zmembers/score the sorted set document_processing_queue
\*   fallback_queue the in-process dict; order is its insertion order
NewQueue(avail) ==
    [redis_available |-> avail,
     redis |-> [j \in JobIds |-> NoJob],
     zmembers |-> {},
     score |-> [j \in JobIds |-> 0],
     fallback_queue |-> [j \in JobIds |-> NoJob],
     order |-> <<>>]

\* A coroutine's frame.  job/alias: the caller's local `job`; ujob/ualias:
\* update_job_status's local `job`.  alias = TRUE when the local is the very
\* dict object stored in fallback_queue[id] (fallback_queue.get returns the
\* object, json.loads returns a copy).  seen: ids returned by other dequeue
\* calls while this dequeue call was running (history, for exclusivity).
\* pend: the jobs that were PENDING when a dequeue_job call started;
\* preprio: the queue priority of every job when a dequeue_job or retry_job
\* call started.
IdleTask ==
    [pc |-> "idle", op |-> "none", id |-> 0, status |-> "none",
     job |-> NoJob, alias |-> FALSE, ujob |-> NoJob, ualias |-> FALSE,
     seen |-> {}, pend |-> {}, preprio |-> [j \in JobIds |-> 0]]

\* A returned call: op, the job id it was about (0: none), its boolean
\* result, the job dictionary it returned (NoJob: None).
NoCall == [op |-> "none", id |-> 0, ok |-> FALSE, job |-> NoJob,
           overlap |-> FALSE, pend |-> {}, preprio |-> [j \in JobIds |-> 0]]


\* --------------------------------------------------------------- helpers

\* The job ids in use: uuid4 never returns one of them again.
Used(q) == {j \in JobIds : q.redis[j] # NoJob \/ q.fallback_queue[j] # NoJob}

\* get_job: the Redis record if the GET answers with one (a copy), else the
\* object in fallback_queue (None when absent).  ok = FALSE: the GET raised.
get_job_result(q, id, ok) ==
    IF q.redis_available /\ ok /\ q.redis[id] # NoJob
    THEN [job |-> q.redis[id], alias |-> FALSE]
    ELSE [job |-> q.fallback_queue[id], alias |-> q.fallback_queue[id] # NoJob]

\* What get_job returns while Redis answers (or is not in use).
View(q, id) == get_job_result(q, id, TRUE).job

\* The value of a coroutine's local `job` / update_job_status's local `job`.
JobVal(q, tk) == IF tk.alias THEN q.fallback_queue[tk.id] ELSE tk.job
UJobVal(q, tk) == IF tk.ualias THEN q.fallback_queue[tk.id] ELSE tk.ujob

\* An in-place change of a job dictionary: when the dictionary is the object
\* stored in fallback_queue, the store changes with it.
Mutate(q, id, alias, val) ==
    IF alias THEN [q EXCEPT !.fallback_queue[id] = val] ELSE q

\* self.fallback_queue[job_id] = job.  A new key goes to the end of the dict;
\* an existing key keeps its place.
FallbackPut(q, id, val) ==
    [q EXCEPT !.fallback_queue[id] = val,
              !.order = IF q.fallback_queue[id] = NoJob THEN Append(@, id) ELSE @]

\* The other coroutines' locals after fallback_queue[id] is rebound to another
\* object: a local that was the old object keeps the old object.
Detach(q, ts, id, isAlias) ==
    [u \in Tasks |->
        IF isAlias \/ ts[u].id # id THEN ts[u]
        ELSE [ts[u] EXCEPT
                !.job = IF ts[u].alias THEN q.fallback_queue[id] ELSE @,
                !.alias = FALSE,
                !.ujob = IF ts[u].ualias THEN q.fallback_queue[id] ELSE @,
                !.ualias = FALSE]]

\* ZREVRANGE queue 0 0: the member with the highest score; among equal
\* scores Redis orders members lexicographically, the greatest first.
ZTop(q) ==
    CHOOSE j \in q.zmembers :
        \A o \in q.zmembers :
            q.score[j] > q.score[o] \/ (q.score[j] = q.score[o] /\ j >= o)

Pos(q, id) == CHOOSE k \in 1..Len(q.order) : q.order[k] = id

\* The fallback loop of dequeue_job: the first PENDING job of the dict sorted
\* by priority, highest first (sorted is stable: equal priorities keep the
\* insertion order).  0 when there is none.
FallbackPick(q) ==
    LET P == {j \in JobIds : q.fallback_queue[j].status = PENDING}
    IN  IF P = {} THEN 0
        ELSE CHOOSE j \in P :
                \A o \in P :
                    \/ q.fallback_queue[j].priority > q.fallback_queue[o].priority
                    \/ /\ q.fallback_queue[j].priority = q.fallback_queue[o].priority
                       /\ Pos(q, j) <= Pos(q, o)

\* Variants of the test: one that lets a job be retried once more than its
\* budget, one that refuses the last retry of the budget.
RetriesExhausted_Over(job) == job.retry_count > job.max_retries
RetriesExhausted_Under(job) == job.retry_count + 1 >= job.max_retries

\* retry_job's test `retry_count >= max_retries`.
RetriesExhausted(job) == job.retry_count >= job.max_retries

\* The score retry_job re-adds the job with: job.get("priority", 0) - 1.
RetryScore(job) == job.priority - 1

\* The jobs get_job reports PENDING.
PendingJobs(q) == {j \in JobIds : View(q, j).status = PENDING}

\* The priority the queue orders job id by: its score while it is a member
\* of the sorted set, else the priority field of its record.
QueuePriority(q, id) ==
    IF q.redis_available /\ id \in q.zmembers THEN q.score[id]
    ELSE View(q, id).priority

QueuePriorities(q) == [j \in JobIds |-> QueuePriority(q, j)]

\* ------------------------------------------------------ steps and returns
\* A step's outcome: the queue, the coroutines, and the call that returned
\* (op = "none": the coroutine is suspended at its next await).
Cont(q, ts) == [q |-> q, ts |-> ts, ret |-> NoCall]

\* Coroutine t returns.  A dequeue_job that returns a job is noted by every
\* dequeue_job still running.
Return(q, ts, t, op, id, ok, job) ==
    LET got == op = "dequeue" /\ job # NoJob
    IN  [q |-> q,
         ts |-> [u \in Tasks |->
                   IF u = t THEN IdleTask
                   ELSE IF got /\ ts[u].op = "dequeue"
                        THEN [ts[u] EXCEPT !.seen = @ \cup {id}]
                        ELSE ts[u]],
         ret |-> [op |-> op, id |-> id, ok |-> ok, job |-> job,
                  overlap |-> got /\ id \in ts[t].seen,
                  pend |-> ts[t].pend, preprio |-> ts[t].preprio]]

\* The frame of a call that starts.
Frame(op, id, status) ==
    [IdleTask EXCEPT !.op = op, !.id = id, !.status = status]


\* ------------------------------------------------------ update_job_status
\* The return of update_job_status: to its caller when dequeue_job or
\* retry_job called it.  dequeue_job returns its own local `job`, retry_job
\* returns False.
UpdateReturn(q, ts, t, result) ==
    IF ts[t].op = "dequeue"
    THEN Return(q, ts, t, "dequeue", ts[t].id, TRUE, JobVal(q, ts[t]))
    ELSE IF ts[t].op = "retry"
    THEN Return(q, ts, t, "retry", ts[t].id, FALSE, NoJob)
    ELSE Return(q, ts, t, "update", ts[t].id, result, NoJob)

\* update_job_status up to its SETEX: get_job, the status written into the
\* dictionary, and without Redis the store into fallback_queue.
update_get(q, ts, t, ok) ==
    LET id == ts[t].id
        g == get_job_result(q, id, ok)
        val == [g.job EXCEPT !.status = ts[t].status]
        q1 == Mutate(q, id, g.alias, val)
        ts1 == [ts EXCEPT ![t].ujob = val, ![t].ualias = g.alias,
                          ![t].pc = "upd_setex"]
    IN  IF g.job = NoJob THEN UpdateReturn(q, ts, t, FALSE)
        ELSE IF q.redis_available THEN Cont(q1, ts1)
        ELSE UpdateReturn(FallbackPut(q1, id, val),
                          Detach(q1, ts1, id, g.alias), t, TRUE)

\* The SETEX of update_job_status; when it raises the job goes to
\* fallback_queue and the call still returns True.
update_setex(q, ts, t, ok) ==
    LET id == ts[t].id
        val == UJobVal(q, ts[t])
    IN  IF ok THEN UpdateReturn([q EXCEPT !.redis[id] = val], ts, t, TRUE)
        ELSE UpdateReturn(FallbackPut(q, id, val),
                          Detach(q, ts, id, ts[t].ualias), t, TRUE)

update_start(q, ts, t, id, status, ok) ==
    update_get(q, [ts EXCEPT ![t] = Frame("update", id, status)], t, ok)

\* ---------------------------------------------------------------- get_job
get_start(q, ts, t, id, ok) ==
    LET g == get_job_result(q, id, ok)
    IN  Return(q, [ts EXCEPT ![t] = Frame("get", id, "none")], t,
               "get", id, g.job # NoJob, g.job)

\* ------------------------------------------------------------ enqueue_job
\* A variant whose handler of a raising SETEX does not store the job.
enqueue_start_Dropped(q, ts, t, id, priority, max_retries, ok) ==
    LET job == NewJob(priority, max_retries)
        ts1 == [ts EXCEPT ![t] = [Frame("enqueue", id, "none") EXCEPT
                                     !.job = job, !.pc = "enq_zadd"]]
    IN  IF q.redis_available /\ ok
        THEN Cont([q EXCEPT !.redis[id] = job], ts1)
        ELSE IF q.redis_available
        THEN Return(q, ts1, t, "enqueue", id, TRUE, NoJob)
        ELSE Return(FallbackPut(q, id, job), Detach(q, ts1, id, FALSE), t,
                    "enqueue", id, TRUE, NoJob)

\* enqueue_job up to its ZADD: the SETEX of the new record, or the store into
\* fallback_queue when Redis is not in use or the SETEX raises.
enqueue_start(q, ts, t, id, priority, max_retries, ok) ==
    LET job == NewJob(priority, max_retries)
        ts1 == [ts EXCEPT ![t] = [Frame("enqueue", id, "none") EXCEPT
                                     !.job = job, !.pc = "enq_zadd"]]
    IN  IF q.redis_available /\ ok
        THEN Cont([q EXCEPT !.redis[id] = job], ts1)
        ELSE Return(FallbackPut(q, id, job), Detach(q, ts1, id, FALSE), t,
                    "enqueue", id, TRUE, NoJob)

\* The ZADD of enqueue_job, with the priority as score.
enqueue_zadd(q, ts, t, ok) ==
    LET id == ts[t].id
        job == ts[t].job
    IN  IF ok
        THEN Return([q EXCEPT !.zmembers = @ \cup {id},
                              !.score[id] = job.priority],
                    ts, t, "enqueue", id, TRUE, NoJob)
        ELSE Return(FallbackPut(q, id, job), Detach(q, ts, id, FALSE), t,
                    "enqueue", id, TRUE, NoJob)

\* ------------------------------------------------------------ dequeue_job
\* The in-memory loop at the end of dequeue_job.
fallback_loop(q, ts, t) ==
    LET pick == FallbackPick(q)
        val == [q.fallback_queue[pick] EXCEPT !.status = PROCESSING]
    IN  IF pick = 0 THEN Return(q, ts, t, "dequeue", 0, FALSE, NoJob)
        ELSE Return([q EXCEPT !.fallback_queue[pick] = val], ts, t,
                    "dequeue", pick, TRUE, val)

\* dequeue_job up to get_job: the ZREVRANGE.  An empty sorted set returns
\* None at once; an exception, or no Redis, leads to the in-memory loop.
dequeue_start(q, ts, t, ok) ==
    LET ts1 == [ts EXCEPT ![t] = [Frame("dequeue", 0, PROCESSING) EXCEPT
                                     !.pend = PendingJobs(q),
                                     !.preprio = QueuePriorities(q)]]
    IN  IF q.redis_available /\ ok
        THEN IF q.zmembers = {}
             THEN Return(q, ts1, t, "dequeue", 0, FALSE, NoJob)
             ELSE Cont(q, [ts1 EXCEPT ![t].id = ZTop(q), ![t].pc = "deq_get"])
        ELSE fallback_loop(q, ts1, t)

\* get_job(job_id) and the test `job and job["status"] == PENDING`.
dequeue_get(q, ts, t, ok) ==
    LET g == get_job_result(q, ts[t].id, ok)
    IN  IF g.job # NoJob /\ g.job.status = PENDING
        THEN Cont(q, [ts EXCEPT ![t].job = g.job, ![t].alias = g.alias,
                                ![t].pc = "deq_zrem"])
        ELSE fallback_loop(q, ts, t)

\* The ZREM; update_job_status(job_id, PROCESSING) follows.
dequeue_zrem(q, ts, t, ok) ==
    IF ok
    THEN Cont([q EXCEPT !.zmembers = @ \ {ts[t].id}],
              [ts EXCEPT ![t].pc = "upd_get"])
    ELSE fallback_loop(q, ts, t)

\* -------------------------------------------------------------- retry_job
\* retry_job up to its SETEX (or up to update_job_status(FAILED)).
retry_start(q, ts, t, id, ok) ==
    LET g == get_job_result(q, id, ok)
        ts1 == [ts EXCEPT ![t] = [Frame("retry", id, FAILED) EXCEPT
                                     !.preprio = QueuePriorities(q)]]
        val == [g.job EXCEPT !.retry_count = @ + 1, !.status = RETRYING]
        q1 == Mutate(q, id, g.alias, val)
        ts2 == [ts1 EXCEPT ![t].job = val, ![t].alias = g.alias,
                           ![t].pc = "ret_setex"]
    IN  IF g.job = NoJob THEN Return(q, ts1, t, "retry", id, FALSE, NoJob)
        ELSE IF RetriesExhausted(g.job)
        THEN Cont(q, [ts1 EXCEPT ![t].pc = "upd_get"])
        ELSE IF q.redis_available THEN Cont(q1, ts2)
        ELSE Return(FallbackPut(q1, id, val), Detach(q1, ts2, id, g.alias), t,
                    "retry", id, TRUE, NoJob)

retry_setex(q, ts, t, ok) ==
    LET id == ts[t].id
        val == JobVal(q, ts[t])
    IN  IF ok
        THEN Cont([q EXCEPT !.redis[id] = val], [ts EXCEPT ![t].pc = "ret_zadd"])
        ELSE Return(FallbackPut(q, id, val), Detach(q, ts, id, ts[t].alias), t,
                    "retry", id, TRUE, NoJob)

\* The ZADD that re-adds the job "with lower priority".
retry_zadd(q, ts, t, ok) ==
    LET id == ts[t].id
        val == JobVal(q, ts[t])
    IN  IF ok
        THEN Return([q EXCEPT !.zmembers = @ \cup {id},
                              !.score[id] = RetryScore(val)],
                    ts, t, "retry", id, TRUE, NoJob)
        ELSE Return(FallbackPut(q, id, val), Detach(q, ts, id, ts[t].alias), t,
                    "retry", id, TRUE, NoJob)

\* ---------------------------------------------------------------- actions
Do(i, r) ==
    /\ queue' = [queue EXCEPT ![i] = r.q]
    /\ task' = [task EXCEPT ![i] = r.ts]
    /\ last' = IF r.ret.op = "none" THEN last ELSE [last EXCEPT ![i] = r.ret]
    /\ nretry' = IF r.ret.op = "retry" /\ r.ret.id \in Used(r.q)
                 THEN [nretry EXCEPT ![i][r.ret.id] = @ + 1] ELSE nretry

At(i, t, pc) == task[i][t].pc = pc

\* A call starts: coroutine t is free, and the run has calls left of its n.
Start(i, t, n) ==
    /\ At(i, t, "idle")
    /\ ncalls[i] < n
    /\ ncalls' = [ncalls EXCEPT ![i] = @ + 1]

enqueue_job(i, t, id, priority, max_retries, ok, n) ==
    /\ Start(i, t, n)
    /\ id \notin Used(queue[i])
    /\ Do(i, enqueue_start(queue[i], task[i], t, id, priority, max_retries, ok))

get_job(i, t, id, ok, n) ==
    /\ Start(i, t, n)
    /\ Do(i, get_start(queue[i], task[i], t, id, ok))

update_job_status(i, t, id, status, ok, n) ==
    /\ Start(i, t, n)
    /\ Do(i, update_start(queue[i], task[i], t, id, status, ok))

dequeue_job(i, t, ok, n) ==
    /\ Start(i, t, n)
    /\ Do(i, dequeue_start(queue[i], task[i], t, ok))

retry_job(i, t, id, ok, n) ==
    /\ Start(i, t, n)
    /\ Do(i, retry_start(queue[i], task[i], t, id, ok))

\* A suspended coroutine resumes: its awaited Redis call answers or raises.
Resume(i, t, ok) ==
    /\ ~At(i, t, "idle")
    /\ UNCHANGED ncalls
    /\ Do(i, CASE At(i, t, "enq_zadd") -> enqueue_zadd(queue[i], task[i], t, ok)
               [] At(i, t, "upd_get") -> update_get(queue[i], task[i], t, ok)
               [] At(i, t, "upd_setex") -> update_setex(queue[i], task[i], t, ok)
               [] At(i, t, "deq_get") -> dequeue_get(queue[i], task[i], t, ok)
               [] At(i, t, "deq_zrem") -> dequeue_zrem(queue[i], task[i], t, ok)
               [] At(i, t, "ret_setex") -> retry_setex(queue[i], task[i], t, ok)
               [] At(i, t, "ret_zadd") -> retry_zadd(queue[i], task[i], t, ok))

\* The calls of the coroutines T on queue i; Raises: what the awaited Redis
\* call may do (FALSE: answer, TRUE: raise).
QueueStep(i, T, Raises, n) ==
    \E t \in T, raises \in Raises :
        \/ \E id \in JobIds, p \in Priorities, m \in MaxRetriesArgs :
               enqueue_job(i, t, id, p, m, ~raises, n) /\ UNCHANGED <<pvars, pipe>>
        \/ \E id \in JobIds : get_job(i, t, id, ~raises, n) /\ UNCHANGED <<pvars, pipe>>
        \/ \E id \in JobIds, st \in StatusArgs :
               update_job_status(i, t, id, st, ~raises, n) /\ UNCHANGED <<pvars, pipe>>
        \/ dequeue_job(i, t, ~raises, n) /\ UNCHANGED <<pvars, pipe>>
        \/ \E id \in JobIds : retry_job(i, t, id, ~raises, n) /\ UNCHANGED <<pvars, pipe>>
        \/ Resume(i, t, ~raises) /\ UNCHANGED <<pvars, pipe>>

\* ------------------------------------------------- process_document_background
\* The five stages in the order process_document_background runs them, the
\* `next_stage` label and the progress each hands to _execute_processing_stage.
StageNames ==
    <<"preprocessing", "ocr_extraction", "llm_processing", "validation", "routing">>
NextStage ==
    <<"OCR Extraction", "LLM Processing", "Validation", "Routing", "Finalizing">>

\* A variant in which validation hands over a lower progress than LLM
\* processing.
StageProgress_Dip == <<20, 40, 60, 50, 90>>

StageProgress == <<20, 40, 60, 80, 90>>

Stages == DOMAIN StageNames

\* RetryConfig(max_retries=3) of _execute_processing_stage.
StageMaxRetries == 3

\* What one call of a stage's processor does: return, raise one of the
\* retryable exceptions, raise any other exception.
Outcomes == {"ok", "retryable", "fatal"}

\* A variant that guards LLM processing as well.
Guarded_Llm(stage) == stage \in {3, 4, 5}

\* The stages process_document_background calls inside a try/except of their
\* own (validation, routing); the others raise into the outer handler.
Guarded(stage) == stage \in {4, 5}

\* No entry of the document in tools.document_statuses.
NoStatus == [status |-> "none", current_stage |-> "none", progress |-> 0,
             stages |-> [s \in Stages |-> "none"]]

\* One run of process_document_background on one document, and the stores
\* it writes.  pc: where the coroutine is; stage, attempt: the stage running
\* and the index of retry_with_backoff's loop; documents, processing_stages:
\* the rows of the document in the database ("none": no row);
\* document_statuses: its entry in tools.document_statuses.  History:
\* invoked: the stages whose processor was called; written: the stages
\* update_processing_stage was called for; failed: the stages whose
\* retry_with_backoff raised.  results: what the run holds as the result of
\* each stage ("result": what the processor returned, "default": the default
\* of the stage's handler).
NewRun(use_database, rows, in_memory) ==
    [pc |-> "start", stage |-> 0, attempt |-> 0,
     use_database |-> use_database,
     documents |-> [status |-> "uploaded", processing_stage |-> "none"],
     processing_stages |-> [s \in Stages |-> IF rows THEN "pending" ELSE "none"],
     document_statuses |->
         IF in_memory
         THEN [status |-> "uploaded", current_stage |-> "Uploaded", progress |-> 0,
               stages |-> [s \in Stages |-> "pending"]]
         ELSE NoStatus,
     results |-> [s \in Stages |-> "none"],
     invoked |-> {}, written |-> {}, failed |-> {}, nruns |-> 1]

NoRun == [NewRun(FALSE, FALSE, FALSE) EXCEPT !.pc = "none"]

\* DocumentDBService.update_processing_stage: an UPDATE of the stage's row;
\* the method catches what the database raises (ok = FALSE) and returns False.
update_processing_stage(p, s, status, ok) ==
    [p EXCEPT !.processing_stages[s] =
                  IF ok /\ @ # "none" THEN status ELSE @,
              !.written = @ \cup {s}]

\* DocumentDBService.update_document_status: an UPDATE of the documents row.
update_document_status(p, status, processing_stage, ok) ==
    IF ok THEN [p EXCEPT !.documents = [status |-> status,
                                       processing_stage |-> processing_stage]]
    ELSE p

\* stage_name.replace("_", " ").title() of get_document_status.
StageTitles ==
    <<"Preprocessing", "Ocr Extraction", "Llm Processing", "Validation", "Routing">>

\* DocumentDBService.get_document_status: the status of the documents row,
\* the progress as the share of the stage rows that are "completed", and as
\* current stage the first row that is "processing" or "pending" (the rows
\* in the order of the stages; "Preprocessing" when there is none).
get_document_status(p) ==
    LET rows == {s \in Stages : p.processing_stages[s] # "none"}
        total_stages == Cardinality(rows)
        completed_stages ==
            Cardinality({s \in rows : p.processing_stages[s] = "completed"})
        open == {s \in rows : p.processing_stages[s] \in {"processing", "pending"}}
        first == CHOOSE s \in open : \A o \in open : s <= o
    IN  [status |-> p.documents.status,
         progress |-> IF total_stages > 0
                      THEN (completed_stages * 100) \div total_stages ELSE 0,
         current_stage |-> IF open = {} THEN "Preprocessing" ELSE StageTitles[first],
         stages |-> [s \in Stages |->
                       IF rows = {} THEN "pending" ELSE p.processing_stages[s]]]

\* tools._update_document_status(document_id, status, error_message): the
\* document's overall status is set, in the database when it is in use and in
\* the document's entry of tools.document_statuses.
tools_update_document_status(p, status) ==
    [p EXCEPT !.documents.status = IF p.use_database THEN status ELSE @,
              !.document_statuses =
                  IF @ = NoStatus THEN @ ELSE [@ EXCEPT !.status = status]]

\* tools._store_processing_results: stores the results and sets the
\* document COMPLETED.
tools_store_processing_results(p) ==
    [p EXCEPT !.documents.status = IF p.use_database THEN "completed" ELSE @,
              !.document_statuses =
                  IF @ = NoStatus THEN @
                  ELSE [@ EXCEPT !.status = "completed",
                                 !.current_stage = "Completed",
                                 !.progress = 100]]

\* The handler of process_document_background's outer try: the document is
\* set failed and the run ends.
OuterExcept(p) == [tools_update_document_status(p, "failed") EXCEPT !.pc = "done"]

\* After stage p.stage returned or was replaced by its default: the next
\* stage, and after routing the storing of the results.
AfterStage(p) ==
    IF p.stage < Len(StageNames)
    THEN [p EXCEPT !.pc = "stage", !.stage = @ + 1]
    ELSE [p EXCEPT !.pc = "store"]

vars == <<queue, task, last, nretry, ncalls, call, started, pipe, dvars>>

QueueInit ==
    /\ queue \in {[i \in Inst |-> NewQueue(i = "a" /\ avail)] : avail \in BOOLEAN}
    /\ task = [i \in Inst |-> [t \in Tasks |-> IdleTask]]
    /\ last = [i \in Inst |-> NoCall]
    /\ nretry = [i \in Inst |-> [j \in JobIds |-> 0]]
    /\ ncalls = [i \in Inst |-> 0]

NoPairCall == [op |-> "none", id |-> 0, priority |-> 0, max_retries |-> 0,
               status |-> "none"]

\* No upload has been made.
NoRuns ==
    [upload |-> [d \in Documents |-> "none"],
     job_data |-> [j \in JobIds |-> 0],
     run |-> [d \in Documents |-> [background |-> "none", consumer |-> "none"]]]

\* The result tables, empty, and no save call made.  A table is the
\* sequence of its rows in the order of their insertion.  History: last[k]
\* is the value given to the latest save call for key k that returned True.
\* An Optional value: None, or the value in a one-element tuple.
None == <<>>
Some(x) == <<x>>
Truthy(o) == o # None /\ o[1] # 0

\* A processing_stages row: its status and its metadata column (the stored
\* JSON text, written as the dictionary it encodes).
NoStageRow == [status |-> "none", metadata |-> None]

IdleWriter == [pc |-> "idle", table |-> "none", row |-> [key |-> <<>>, value |-> "none"]]

NoResults ==
    [extraction_results |-> <<>>, quality_scores |-> <<>>, routing_decisions |-> <<>>,
     pc |-> "idle", table |-> "none", row |-> [key |-> <<>>, value |-> "none"],
     nwrites |-> 0, last |-> [k \in ResultKeys |-> "none"],
     writer |-> [w \in Tasks |-> IdleWriter],
     stage_rows |-> [s \in Stages |-> NoStageRow],
     stage_call |-> [op |-> "none", stage |-> 0, metadata |-> None]]

\* No retry_with_backoff call.
NoRetry ==
    [pc |-> "none", config |-> RetryConfig(0, 1, 1, 1, {}), attempt |-> 0, delay |-> 0,
     last_exception |-> "None", raised |-> "None", calls |-> <<>>, sleeps |-> <<>>]

\* CircuitBreaker.__init__: closed, no failure counted, no failure time.
\* now: the value time.time() returns; calling[t]: coroutine t is inside
\* the wrapped function.  History: ncalls, the calls made; last, what the
\* latest step of a call was ("invoked", "rejected", "ok", "error",
\* "cancelled") and the state it found; streak, the failed calls since the
\* latest successful one; nfailed, the failed calls; probes, the successful
\* calls found half_open since the breaker last moved to half_open.
NewBreaker(failure_threshold, recovery_timeout, half_open_max_calls) ==
    [failure_threshold |-> failure_threshold,
     recovery_timeout |-> recovery_timeout,
     half_open_max_calls |-> half_open_max_calls,
     failure_count |-> 0, last_failure_time |-> None, state |-> "closed",
     half_open_calls |-> 0,
     now |-> 1, calling |-> [t \in Tasks |-> FALSE],
     ncalls |-> 0, last |-> [op |-> "none", found |-> "closed"], streak |-> 0,
     nfailed |-> 0, probes |-> 0]

NoBreaker == NewBreaker(1, 0, 1)

\* No stage-completed update applied.  History: stage, the stage of the
\* latest application; prev, the stage of the one before (0: none); view,
\* the status view when the latest application began; n, the applications.
NoApplied == [stage |-> 0, prev |-> 0, view |-> <<>>, n |-> 0]

Quiet ==
    /\ runs = NoRuns /\ db = NoResults /\ retry = NoRetry /\ breaker = NoBreaker
    /\ applied = NoApplied

PairIdle == call = NoPairCall /\ started = {} /\ pipe = NoRun /\ Quiet

\* One JobQueue used by concurrent coroutines.
Init == QueueInit /\ PairIdle
Next == QueueStep("a", Tasks, BOOLEAN, MaxCalls)
Spec == Init /\ [][Next]_vars

\* Concurrent coroutines, and a backend that does not change during the run.
NextRace == QueueStep("a", Tasks, {FALSE}, MaxCalls)
SpecRace == Init /\ [][NextRace]_vars

\* One JobQueue used by one caller: no two calls overlap.
NextSeq == QueueStep("a", {1}, BOOLEAN, MaxCalls)
SpecSeq == Init /\ [][NextSeq]_vars

\* One caller, and a backend that does not change during the run: Redis
\* answers every call, or is not in use at all.
NextStable == QueueStep("a", {1}, {FALSE}, MaxStableCalls)
SpecStable == Init /\ [][NextStable]_vars

\* ----------------------------------------------------- two backends, SpecPair
\* The same calls issued to queue "a" on Redis and to queue "b" on the
\* in-process store, one call at a time, each to its return.
AllIdle(i) == \A t \in Tasks : At(i, t, "idle")

PairInit ==
    /\ queue = [i \in Inst |-> NewQueue(i = "a")]
    /\ task = [i \in Inst |-> [t \in Tasks |-> IdleTask]]
    /\ last = [i \in Inst |-> NoCall]
    /\ nretry = [i \in Inst |-> [j \in JobIds |-> 0]]
    /\ ncalls = [i \in Inst |-> 0]
    /\ PairIdle

Compared == started \in {{}, Inst} /\ \A i \in Inst : AllIdle(i)

PairIssue ==
    /\ Compared
    /\ \A i \in Inst : ncalls[i] < MaxCalls
    /\ \E op \in {"enqueue", "get", "update", "dequeue", "retry"},
          id \in JobIds, p \in Priorities, m \in MaxRetriesArgs, st \in StatusArgs :
            /\ op = "enqueue" => id \notin Used(queue["a"]) \cup Used(queue["b"])
            /\ call' = [op |-> op, id |-> id, priority |-> p,
                        max_retries |-> m, status |-> st]
    /\ started' = {}
    /\ UNCHANGED <<qvars, pipe, dvars>>

PairBegin(i, op) ==
    /\ call.op = op
    /\ i \notin started
    /\ started' = started \cup {i}
    /\ UNCHANGED <<call, pipe, dvars>>

PairStart(i) ==
    \/ PairBegin(i, "enqueue") /\
         enqueue_job(i, 1, call.id, call.priority, call.max_retries, TRUE, MaxCalls)
    \/ PairBegin(i, "get") /\ get_job(i, 1, call.id, TRUE, MaxCalls)
    \/ PairBegin(i, "update") /\ update_job_status(i, 1, call.id, call.status, TRUE, MaxCalls)
    \/ PairBegin(i, "dequeue") /\ dequeue_job(i, 1, TRUE, MaxCalls)
    \/ PairBegin(i, "retry") /\ retry_job(i, 1, call.id, TRUE, MaxCalls)

PairNext ==
    \/ PairIssue
    \/ \E i \in Inst : PairStart(i)
    \/ \E i \in Inst : Resume(i, 1, TRUE) /\ UNCHANGED <<pvars, pipe>>
SpecPair == PairInit /\ [][PairNext]_vars

\* ------------------------------------------ upload and its runs, SpecUpload
\* enqueue_job(priority=0, max_retries=3) of upload_document.
UploadPriority == 0
UploadMaxRetries == 3

\* The coroutine of the upload endpoint and the coroutine of the consumer.
Uploader == 1
Consumer == 2

\* upload_document up to its first suspension inside enqueue_job: the job
\* of a new document d is enqueued with the document's id in its job_data.
upload_document(d, id) ==
    /\ runs.upload[d] = "none"
    /\ \A o \in Documents : runs.upload[o] # "enqueue"
    /\ enqueue_job("a", Uploader, id, UploadPriority, UploadMaxRetries, TRUE, MaxCalls)
    /\ runs' = [runs EXCEPT !.upload[d] = "enqueue", !.job_data[id] = d]

\* enqueue_job has returned (or raised): background_tasks.add_task schedules
\* process_document_background for the document, once, on either path.
upload_add_task(d) ==
    /\ runs.upload[d] = "enqueue"
    /\ At("a", Uploader, "idle")
    /\ runs' = [runs EXCEPT !.upload[d] = "done", !.run[d].background = "scheduled"]

\* The job a dequeue_job call of the consumer returns in this step (0: the
\* call is still suspended, or it returns None).
Dequeued ==
    IF /\ task'["a"][Consumer].pc = "idle"
       /\ last'["a"].op = "dequeue"
       /\ last'["a"].job # NoJob
    THEN last'["a"].id ELSE 0

\* A consumer of the queue: it calls dequeue_job and runs
\* process_document_background for the document of the job it is given.
consumer_run ==
    runs' = IF Dequeued = 0 THEN runs
            ELSE [runs EXCEPT !.run[runs.job_data[Dequeued]].consumer = "active"]

consumer_dequeue ==
    /\ \A d \in Documents : runs.run[d].consumer # "active"
    /\ dequeue_job("a", Consumer, TRUE, MaxCalls)
    /\ consumer_run

consumer_resume == Resume("a", Consumer, TRUE) /\ consumer_run

\* The scheduled background task starts: process_document_background is
\* entered, whatever other run of the document there is.
process_document_background(d) ==
    /\ runs.run[d].background = "scheduled"
    /\ runs' = [runs EXCEPT !.run[d].background = "active"]

\* process_document_background returns: the run is over.
process_document_end(d, trigger) ==
    /\ runs.run[d][trigger] = "active"
    /\ runs' = [runs EXCEPT !.run[d][trigger] = "ended"]

UploadNext ==
    \/ \E d \in Documents, id \in JobIds :
          upload_document(d, id) /\ UNCHANGED <<call, started, pipe, db, retry, breaker, applied>>
    \/ Resume("a", Uploader, TRUE) /\ UNCHANGED <<pvars, pipe>>
    \/ \E d \in Documents : upload_add_task(d) /\ UNCHANGED <<qvars, call, started, pipe, db, retry, breaker, applied>>
    \/ consumer_dequeue /\ UNCHANGED <<call, started, pipe, db, retry, breaker, applied>>
    \/ consumer_resume /\ UNCHANGED <<call, started, pipe, db, retry, breaker, applied>>
    \/ \E d \in Documents :
          process_document_background(d) /\ UNCHANGED <<qvars, call, started, pipe, db, retry, breaker, applied>>
    \/ \E d \in Documents, trigger \in {"background", "consumer"} :
          process_document_end(d, trigger) /\ UNCHANGED <<qvars, call, started, pipe, db, retry, breaker, applied>>

SpecUpload == Init /\ [][UploadNext]_vars
SpecUploadFair == Init /\ [][UploadNext]_vars /\ WF_vars(UploadNext)

\* ------------------------------------------------ the results, SpecResults
\* ensure_serializable of save_extraction_result, followed by json.dumps and,
\* on the way back, json.loads: a datetime comes back as its isoformat string.
ensure_serializable(value) == IF value = "datetime" THEN "isoformat" ELSE value

\* json.dumps accepts the value.
Serializable(value) == value # "datetime"

\* The rows of a table without those of the key: the DELETE statement.
DeleteRows(rows, key) == SelectSeq(rows, LAMBDA r : r.key # key)

\* A save call starts: the arguments are prepared and the DELETE is
\* awaited.
SaveStart(table, key, value) ==
    /\ db.pc = "idle"
    /\ db.nwrites < MaxWrites
    /\ db' = [db EXCEPT !.pc = "delete", !.table = table,
                        !.row = [key |-> key, value |-> value],
                        !.nwrites = @ + 1]

save_extraction_result(d, stage, value) ==
    SaveStart("extraction_results", <<d, stage>>, value)

save_quality_score(d, value) == SaveStart("quality_scores", <<d>>, value)

save_routing_decision(d, value) == SaveStart("routing_decisions", <<d>>, value)

\* The DELETE of the save call runs; the INSERT is next.
save_delete ==
    /\ db.pc = "delete"
    /\ db' = [db EXCEPT !.pc = "insert",
                        ![db.table] = DeleteRows(@, db.row.key)]

\* The INSERT of the save call.  save_extraction_result inserts the
\* serializable form of its data; save_quality_score and
\* save_routing_decision call json.dumps on theirs while building the
\* statement, and when that raises the call returns False without inserting.
save_insert ==
    LET returns == db.table = "extraction_results" \/ Serializable(db.row.value)
    IN  /\ db.pc = "insert"
        /\ db' = [db EXCEPT
                     !.pc = "idle",
                     ![db.table] =
                         IF db.table = "extraction_results"
                         THEN Append(@, [db.row EXCEPT !.value = ensure_serializable(@)])
                         ELSE IF returns THEN Append(@, db.row)
                         ELSE @,
                     !.last[<<db.table>> \o db.row.key] =
                         IF returns THEN db.row.value ELSE @]

\* get_extraction_results(document_id): for every stage the value of the
\* latest row of the document with that stage, the first quality score row
\* and the first routing decision row of the document ("none": no row).
Rows(table, key) == SelectSeq(db[table], LAMBDA r : r.key = key)

get_extraction_results(d) ==
    LET ext(st) == Rows("extraction_results", <<d, st>>)
        q == Rows("quality_scores", <<d>>)
        r == Rows("routing_decisions", <<d>>)
    IN  [extraction_results |->
             [st \in ResultStages |->
                IF ext(st) = <<>> THEN "none" ELSE ext(st)[Len(ext(st))].value],
         quality_score |-> IF q = <<>> THEN "none" ELSE q[1].value,
         routing_decision |-> IF r = <<>> THEN "none" ELSE r[1].value]

ResultsInit == PairInit

ResultsNext ==
    \/ \E d \in Documents, st \in ResultStages, v \in ResultValues :
          save_extraction_result(d, st, v) /\ UNCHANGED <<qvars, call, started, pipe, runs, retry, breaker, applied>>
    \/ \E d \in Documents, v \in ResultValues :
          save_quality_score(d, v) /\ UNCHANGED <<qvars, call, started, pipe, runs, retry, breaker, applied>>
    \/ \E d \in Documents, v \in ResultValues :
          save_routing_decision(d, v) /\ UNCHANGED <<qvars, call, started, pipe, runs, retry, breaker, applied>>
    \/ save_delete /\ UNCHANGED <<qvars, call, started, pipe, runs, retry, breaker, applied>>
    \/ save_insert /\ UNCHANGED <<qvars, call, started, pipe, runs, retry, breaker, applied>>

SpecResults == ResultsInit /\ [][ResultsNext]_vars

\* Two coroutines saving results at the same time. Each save awaits its
\* DELETE and then its INSERT, so the statements of two saves interleave.
\* The result tables have no unique key: an INSERT adds a row.
SerializableValues == {v \in ResultValues : Serializable(v)}

race_save(w, table, key, value) ==
    /\ db.writer[w].pc = "idle"
    /\ db.nwrites < MaxWrites
    /\ db' = [db EXCEPT !.writer[w] = [pc |-> "delete", table |-> table,
                                       row |-> [key |-> key, value |-> value]],
                        !.nwrites = @ + 1]

race_delete(w) ==
    LET f == db.writer[w]
    IN  /\ f.pc = "delete"
        /\ db' = [db EXCEPT !.writer[w].pc = "insert",
                            ![f.table] = DeleteRows(@, f.row.key)]

InsertRow(rows, row) == Append(rows, row)

race_insert(w) ==
    LET f == db.writer[w]
    IN  /\ f.pc = "insert"
        /\ db' = [db EXCEPT !.writer[w] = IdleWriter,
                            ![f.table] =
                                InsertRow(@, IF f.table = "extraction_results"
                                             THEN [f.row EXCEPT !.value = ensure_serializable(@)]
                                             ELSE f.row),
                            !.last[<<f.table>> \o f.row.key] = f.row.value]

ResultsRaceNext ==
    \/ \E w \in Tasks, d \in Documents, st \in ResultStages, v \in SerializableValues :
          race_save(w, "extraction_results", <<d, st>>, v) /\ UNCHANGED <<qvars, call, started, pipe, runs, retry, breaker, applied>>
    \/ \E w \in Tasks, d \in Documents, v \in SerializableValues :
          race_save(w, "quality_scores", <<d>>, v) /\ UNCHANGED <<qvars, call, started, pipe, runs, retry, breaker, applied>>
    \/ \E w \in Tasks, d \in Documents, v \in SerializableValues :
          race_save(w, "routing_decisions", <<d>>, v) /\ UNCHANGED <<qvars, call, started, pipe, runs, retry, breaker, applied>>
    \/ \E w \in Tasks : race_delete(w) /\ UNCHANGED <<qvars, call, started, pipe, runs, retry, breaker, applied>>
    \/ \E w \in Tasks : race_insert(w) /\ UNCHANGED <<qvars, call, started, pipe, runs, retry, breaker, applied>>

SpecResultsRace == ResultsInit /\ [][ResultsRaceNext]_vars

\* The stage rows with their metadata column. A metadata argument is None
\* or a dictionary; EmptyDict is the dictionary {}.
EmptyDict == "{}"
MetadataArgs == {None, Some(EmptyDict), Some("m1"), Some("m2")}
StageStatusArgs == {"processing", "completed", "failed"}

\* metadata or {}: None and the empty dictionary are falsy.
OrEmptyDict(metadata) ==
    IF metadata = None \/ metadata = Some(EmptyDict) THEN EmptyDict
    ELSE metadata[1]

\* json.dumps returns a text for every dictionary, never NULL.
json_dumps(dict) == Some(dict)

COALESCE(value, column) == IF value = None THEN column ELSE value

create_processing_stage(s, status, metadata) ==
    /\ db.nwrites < MaxWrites
    /\ db' = [db EXCEPT
                 !.nwrites = @ + 1,
                 !.stage_call = [op |-> "create", stage |-> s, metadata |-> metadata],
                 !.stage_rows[s] =
                     IF @ = NoStageRow
                     THEN [status |-> status,
                           metadata |-> json_dumps(OrEmptyDict(metadata))]
                     ELSE @]

StageMetadata(row, metadata) ==
    COALESCE(json_dumps(OrEmptyDict(metadata)), row.metadata)

update_stage_row(s, status, metadata) ==
    /\ db.nwrites < MaxWrites
    /\ db' = [db EXCEPT
                 !.nwrites = @ + 1,
                 !.stage_call = [op |-> "update", stage |-> s, metadata |-> metadata],
                 !.stage_rows[s] =
                     IF @ = NoStageRow THEN @
                     ELSE [status |-> status, metadata |-> StageMetadata(@, metadata)]]

StageRowsNext ==
    \/ \E s \in Stages, metadata \in MetadataArgs :
          create_processing_stage(s, "pending", metadata) /\ UNCHANGED <<qvars, call, started, pipe, runs, retry, breaker, applied>>
    \/ \E s \in Stages, status \in StageStatusArgs, metadata \in MetadataArgs :
          update_stage_row(s, status, metadata) /\ UNCHANGED <<qvars, call, started, pipe, runs, retry, breaker, applied>>

SpecStageRows == ResultsInit /\ [][StageRowsNext]_vars

\* ------------------------------------------- retry_with_backoff, SpecRetry
Min(a, b) == IF a <= b THEN a ELSE b

\* A variant that takes every exception for retryable.
is_retryable_Always(e, config) == TRUE

\* is_retryable = any(isinstance(e, exc_type) for exc_type in
\* config.retryable_exceptions).
is_retryable(e, config) ==
    \E exc_type \in config.retryable_exceptions : IsInstance(e, exc_type)

\* retry_with_backoff is called: last_exception = None, delay =
\* config.initial_delay, and the loop is entered (range(max_retries + 1) is
\* not empty here).  History: calls, the outcomes of the calls of the
\* operation so far; sleeps, the delays of the asyncio.sleep calls so far.
retry_begin(config) ==
    [pc |-> "call", config |-> config, attempt |-> 0, delay |-> config.initial_delay,
     last_exception |-> "None", raised |-> "None", calls |-> <<>>, sleeps |-> <<>>]

\* A variant that sleeps after the last attempt as well.
RetriesLeft_Last(attempt, config) == attempt <= config.max_retries

\* `if attempt < config.max_retries`: the pass is not the last one.
RetriesLeft(attempt, config) == attempt < config.max_retries

\* The for statement takes the next value of range(max_retries + 1); when
\* there is none the loop is left and `raise last_exception` runs.
LoopNext(r) ==
    IF r.attempt + 1 < r.config.max_retries + 1
    THEN [r EXCEPT !.pc = "call", !.attempt = @ + 1]
    ELSE [r EXCEPT !.pc = "raised", !.raised = r.last_exception]

\* One pass of the loop body up to its return, raise or sleep: the operation
\* is called and returns ("ok") or raises an exception of type `outcome`.
retry_attempt(outcome) ==
    LET r == [retry EXCEPT !.calls = Append(@, outcome)]
        e == [r EXCEPT !.last_exception = outcome]
    IN  /\ retry.pc = "call"
        /\ retry' =
             IF outcome = "ok" THEN [r EXCEPT !.pc = "returned"]
             ELSE IF ~IsException(outcome)
             THEN [r EXCEPT !.pc = "raised", !.raised = outcome]
             ELSE IF ~is_retryable(outcome, retry.config)
             THEN [e EXCEPT !.pc = "raised", !.raised = outcome]
             ELSE IF RetriesLeft(retry.attempt, retry.config)
             THEN [e EXCEPT !.pc = "sleep", !.sleeps = Append(@, retry.delay)]
             ELSE LoopNext(e)

\* asyncio.sleep(delay) is over: the delay grows and the next pass begins.
retry_wake ==
    /\ retry.pc = "sleep"
    /\ retry' = LoopNext([retry EXCEPT
                             !.delay = Min(@ * retry.config.exponential_base,
                                           retry.config.max_delay)])

RetryInit ==
    /\ queue = [i \in Inst |-> NewQueue(FALSE)]
    /\ task = [i \in Inst |-> [t \in Tasks |-> IdleTask]]
    /\ last = [i \in Inst |-> NoCall]
    /\ nretry = [i \in Inst |-> [j \in JobIds |-> 0]]
    /\ ncalls = [i \in Inst |-> 0]
    /\ call = NoPairCall /\ started = {} /\ pipe = NoRun
    /\ runs = NoRuns /\ db = NoResults /\ breaker = NoBreaker /\ applied = NoApplied
    /\ retry \in {retry_begin(config) : config \in RetryConfigs}

RetryNext ==
    \/ \E outcome \in {"ok"} \cup ExceptionTypes :
          retry_attempt(outcome) /\ UNCHANGED <<qvars, call, started, pipe, runs, db, breaker, applied>>
    \/ retry_wake /\ UNCHANGED <<qvars, call, started, pipe, runs, db, breaker, applied>>

SpecRetry == RetryInit /\ [][RetryNext]_vars

\* ------------------------------------------------ CircuitBreaker, SpecBreaker
\* The test of the open breaker: a failure time is recorded and
\* recovery_timeout has elapsed since.
\* A variant that lets a call through one time unit early.
Recovered_Early(b) ==
    /\ Truthy(b.last_failure_time)
    /\ b.now - b.last_failure_time[1] >= b.recovery_timeout - 1

\* A variant that waits for more than recovery_timeout.
Recovered_Late(b) ==
    /\ Truthy(b.last_failure_time)
    /\ b.now - b.last_failure_time[1] > b.recovery_timeout

Recovered(b) ==
    /\ Truthy(b.last_failure_time)
    /\ b.now - b.last_failure_time[1] >= b.recovery_timeout

\* CircuitBreaker.call up to the wrapped function: an open breaker moves to
\* half_open when it has recovered and raises otherwise; any other breaker
\* lets the call through.
BreakerEnter_Postponed(b, t) ==
    LET seen == [b EXCEPT !.ncalls = @ + 1]
        through(c) == [c EXCEPT !.calling[t] = TRUE,
                                !.last = [op |-> "invoked", found |-> b.state]]
    IN  IF b.state = "open"
        THEN IF Recovered(b)
             THEN through([seen EXCEPT !.state = "half_open", !.half_open_calls = 0,
                                       !.probes = 0])
             ELSE [seen EXCEPT !.last = [op |-> "rejected", found |-> b.state],
                               !.last_failure_time = Some(b.now)]
        ELSE through(seen)

BreakerEnter(b, t) ==
    LET seen == [b EXCEPT !.ncalls = @ + 1]
        through(c) == [c EXCEPT !.calling[t] = TRUE,
                                !.last = [op |-> "invoked", found |-> b.state]]
    IN  IF b.state = "open"
        THEN IF Recovered(b)
             THEN through([seen EXCEPT !.state = "half_open", !.half_open_calls = 0,
                                       !.probes = 0])
             ELSE [seen EXCEPT !.last = [op |-> "rejected", found |-> b.state]]
        ELSE through(seen)

\* The wrapped function has returned.
\* A variant in which a success of the closed breaker keeps failure_count.
BreakerSuccess_Unreset(b) ==
    IF b.state = "half_open"
    THEN IF b.half_open_calls + 1 >= b.half_open_max_calls
         THEN [b EXCEPT !.state = "closed", !.half_open_calls = 0]
         ELSE [b EXCEPT !.half_open_calls = @ + 1]
    ELSE IF b.state = "closed" THEN [b EXCEPT !.failure_count = 0]
    ELSE b

BreakerSuccess_Kept(b) ==
    IF b.state = "half_open"
    THEN IF b.half_open_calls + 1 >= b.half_open_max_calls
         THEN [b EXCEPT !.state = "closed", !.failure_count = 0, !.half_open_calls = 0]
         ELSE [b EXCEPT !.half_open_calls = @ + 1]
    ELSE b

\* A variant that closes the half-open breaker one success late.
BreakerSuccess_Late(b) ==
    IF b.state = "half_open"
    THEN IF b.half_open_calls + 1 > b.half_open_max_calls
         THEN [b EXCEPT !.state = "closed", !.failure_count = 0, !.half_open_calls = 0]
         ELSE [b EXCEPT !.half_open_calls = @ + 1]
    ELSE IF b.state = "closed" THEN [b EXCEPT !.failure_count = 0]
    ELSE b

BreakerSuccess(b) ==
    IF b.state = "half_open"
    THEN IF b.half_open_calls + 1 >= b.half_open_max_calls
         THEN [b EXCEPT !.state = "closed", !.failure_count = 0, !.half_open_calls = 0]
         ELSE [b EXCEPT !.half_open_calls = @ + 1]
    ELSE IF b.state = "closed" THEN [b EXCEPT !.failure_count = 0]
    ELSE b

\* The wrapped function has raised an Exception.
\* A variant that leaves the failure time as it was.
BreakerFailure_Stale(b) ==
    LET c == [b EXCEPT !.failure_count = @ + 1,
                       !.last_failure_time = IF @ = None THEN Some(b.now) ELSE @]
    IN  IF c.failure_count >= c.failure_threshold THEN [c EXCEPT !.state = "open"] ELSE c

BreakerFailure(b) ==
    LET c == [b EXCEPT !.failure_count = @ + 1, !.last_failure_time = Some(b.now)]
    IN  IF c.failure_count >= c.failure_threshold THEN [c EXCEPT !.state = "open"] ELSE c

\* Coroutine t calls CircuitBreaker.call.
breaker_call(t) ==
    /\ ~breaker.calling[t]
    /\ breaker.ncalls < MaxBreakerCalls
    /\ breaker' = BreakerEnter(breaker, t)

\* The wrapped function of coroutine t returns ("ok"), raises an Exception
\* ("error") or raises what `except Exception` does not catch
\* ("cancelled").
breaker_finish(t, outcome) ==
    LET b == [breaker EXCEPT !.calling[t] = FALSE,
                             !.last = [op |-> outcome, found |-> breaker.state]]
    IN  /\ breaker.calling[t]
        /\ breaker' =
             IF outcome = "ok"
             THEN [BreakerSuccess(b) EXCEPT
                      !.streak = 0,
                      !.probes = IF b.state = "half_open" THEN @ + 1 ELSE @]
             ELSE IF outcome = "error" THEN [BreakerFailure(b) EXCEPT !.streak = @ + 1, !.nfailed = @ + 1]
             ELSE b

\* Time passes.
breaker_tick ==
    /\ breaker.now < MaxTime
    /\ breaker' = [breaker EXCEPT !.now = @ + 1,
                                  !.last = [op |-> "tick", found |-> breaker.state]]

BreakerInit ==
    /\ queue = [i \in Inst |-> NewQueue(FALSE)]
    /\ task = [i \in Inst |-> [t \in Tasks |-> IdleTask]]
    /\ last = [i \in Inst |-> NoCall]
    /\ nretry = [i \in Inst |-> [j \in JobIds |-> 0]]
    /\ ncalls = [i \in Inst |-> 0]
    /\ call = NoPairCall /\ started = {} /\ pipe = NoRun
    /\ runs = NoRuns /\ db = NoResults /\ retry = NoRetry /\ applied = NoApplied
    /\ breaker \in {NewBreaker(f, r, h) :
                       f \in 1 .. MaxThreshold, r \in 0 .. MaxRecoveryTimeout,
                       h \in 1 .. MaxHalfOpenCalls}

\* The calls of the coroutines T on the breaker.
BreakerStep(T) ==
    \/ \E t \in T : breaker_call(t) /\ UNCHANGED <<qvars, call, started, pipe, runs, db, retry, applied>>
    \/ \E t \in T, outcome \in {"ok", "error", "cancelled"} :
          breaker_finish(t, outcome) /\ UNCHANGED <<qvars, call, started, pipe, runs, db, retry, applied>>
    \/ breaker_tick /\ UNCHANGED <<qvars, call, started, pipe, runs, db, retry, applied>>

\* One caller: no two calls overlap.
BreakerNext == BreakerStep({1})
SpecBreaker == BreakerInit /\ [][BreakerNext]_vars

\* Calls of several coroutines on one breaker, interleaved at the await of
\* the wrapped function.
BreakerRaceNext == BreakerStep(Tasks)
SpecBreakerRace == BreakerInit /\ [][BreakerRaceNext]_vars

\* -------------------------------------------------- the pipeline, SpecPipeline
\* process_document_background up to stage 1: a missing file raises into the
\* outer handler; the entry of tools.document_statuses is set PREPROCESSING.
pipeline_start(file_exists) ==
    /\ pipe.pc = "start"
    /\ pipe' =
         IF ~file_exists THEN OuterExcept(pipe)
         ELSE [pipe EXCEPT
                 !.pc = "stage", !.stage = 1,
                 !.document_statuses =
                     IF @ = NoStatus THEN @
                     ELSE [@ EXCEPT !.status = "preprocessing",
                                    !.current_stage = "Preprocessing",
                                    !.progress = 10]]

\* _execute_processing_stage up to retry_with_backoff: the stage's row is
\* set "processing" when the database is in use.
stage_processing(ok) ==
    /\ pipe.pc = "stage"
    /\ pipe' = [(IF pipe.use_database
                 THEN update_processing_stage(pipe, pipe.stage, "processing", ok)
                 ELSE pipe)
                EXCEPT !.pc = "attempt", !.attempt = 0]

\* One pass of retry_with_backoff's loop: the processor is called; a
\* retryable exception leads to the next pass while attempt < max_retries.
retry_with_backoff_Unrecorded(outcome) ==
    /\ pipe.pc = "attempt"
    /\ LET p == [pipe EXCEPT !.invoked = @ \cup {pipe.stage}]
           raised == [p EXCEPT !.pc = "error", !.failed = @ \cup {pipe.stage}]
       IN  pipe' =
             CASE outcome = "ok" -> AfterStage(p)
               [] outcome = "fatal" -> raised
               [] outcome = "retryable" ->
                    IF p.attempt < StageMaxRetries
                    THEN [p EXCEPT !.attempt = @ + 1]
                    ELSE raised

retry_with_backoff(outcome) ==
    /\ pipe.pc = "attempt"
    /\ LET p == [pipe EXCEPT !.invoked = @ \cup {pipe.stage}]
           raised == [p EXCEPT !.pc = "error", !.failed = @ \cup {pipe.stage}]
       IN  pipe' =
             CASE outcome = "ok" -> [p EXCEPT !.pc = "completion"]
               [] outcome = "fatal" -> raised
               [] outcome = "retryable" ->
                    IF p.attempt < StageMaxRetries
                    THEN [p EXCEPT !.attempt = @ + 1]
                    ELSE raised

\* A variant that adds the stage's progress to the progress held.
StageReturn_Added(p) ==
    LET s == p.stage
    IN  AfterStage([p EXCEPT
            !.document_statuses =
                IF @ = NoStatus THEN @
                ELSE [@ EXCEPT !.current_stage = NextStage[s],
                               !.progress = @ + StageProgress[s],
                               !.stages[s] = "completed"],
            !.results[s] = "result"])

\* The end of _update_stage_completion: the entry of tools.document_statuses
\* is updated, and _execute_processing_stage returns the result.
StageReturn(p) ==
    LET s == p.stage
    IN  AfterStage([p EXCEPT
            !.document_statuses =
                IF @ = NoStatus THEN @
                ELSE [@ EXCEPT !.current_stage = NextStage[s],
                               !.progress = StageProgress[s],
                               !.stages[s] = "completed"],
            !.results[s] = "result"])

\* _update_stage_completion up to its second database call: the stage's row
\* is set "completed".  Without a database it runs to the return.
update_stage_completion(ok) ==
    /\ pipe.pc = "completion"
    /\ pipe' = IF pipe.use_database
               THEN [update_processing_stage(pipe, pipe.stage, "completed", ok)
                     EXCEPT !.pc = "completion_status"]
               ELSE StageReturn(pipe)

\* The rest of _update_stage_completion: the documents row takes the stage's
\* name as status and processing_stage.
update_completion_status(ok) ==
    /\ pipe.pc = "completion_status"
    /\ pipe' = StageReturn(update_document_status(
                   pipe, StageNames[pipe.stage], StageNames[pipe.stage], ok))

\* _handle_stage_error and the `raise` after it: into the stage's own
\* handler when the stage is guarded, else into the outer handler.
handle_stage_error ==
    /\ pipe.pc = "error"
    /\ LET p == tools_update_document_status(pipe, "failed")
       IN  pipe' = IF Guarded(pipe.stage) THEN [p EXCEPT !.pc = "default"]
                   ELSE OuterExcept(p)

\* The handler of a guarded stage: the default result is taken and the
\* stage's row is set "failed".
stage_default(ok) ==
    /\ pipe.pc = "default"
    /\ LET p == [pipe EXCEPT !.results[pipe.stage] = "default"]
       IN  pipe' = AfterStage(IF p.use_database
                              THEN update_processing_stage(p, p.stage, "failed", ok)
                              ELSE p)

\* The end of the run: tools._store_processing_results.
store_results ==
    /\ pipe.pc = "store"
    /\ pipe' = [tools_store_processing_results(pipe) EXCEPT !.pc = "done"]

PipelineInit ==
    /\ queue = [i \in Inst |-> NewQueue(FALSE)]
    /\ task = [i \in Inst |-> [t \in Tasks |-> IdleTask]]
    /\ last = [i \in Inst |-> NoCall]
    /\ nretry = [i \in Inst |-> [j \in JobIds |-> 0]]
    /\ ncalls = [i \in Inst |-> 0]
    /\ call = NoPairCall /\ started = {} /\ Quiet
    /\ \E use_database, rows, in_memory \in BOOLEAN :
          /\ use_database \/ in_memory
          /\ rows => use_database
          /\ pipe = NewRun(use_database, rows, in_memory)

\* The steps of the run; Oks: what a database call may do (TRUE: answer,
\* FALSE: raise inside the DocumentDBService method).
PipelineStep(Oks) ==
    \/ \E file_exists \in BOOLEAN :
          pipeline_start(file_exists) /\ UNCHANGED <<qvars, pvars>>
    \/ \E ok \in Oks : stage_processing(ok) /\ UNCHANGED <<qvars, pvars>>
    \/ \E outcome \in Outcomes :
          retry_with_backoff(outcome) /\ UNCHANGED <<qvars, pvars>>
    \/ \E ok \in Oks : update_stage_completion(ok) /\ UNCHANGED <<qvars, pvars>>
    \/ \E ok \in Oks : update_completion_status(ok) /\ UNCHANGED <<qvars, pvars>>
    \/ handle_stage_error /\ UNCHANGED <<qvars, pvars>>
    \/ \E ok \in Oks : stage_default(ok) /\ UNCHANGED <<qvars, pvars>>
    \/ store_results /\ UNCHANGED <<qvars, pvars>>

\* A run whose database calls may fail.
PipelineNext == PipelineStep(BOOLEAN)
SpecPipeline == PipelineInit /\ [][PipelineNext]_vars

\* A run whose database answers every call.
PipelineStableNext == PipelineStep({TRUE})
SpecPipelineStable == PipelineInit /\ [][PipelineStableNext]_vars

\* ------------------------------------- the completed update, SpecCompletion
\* What a status read shows: the status query's view when the database is
\* in use, and the entry of tools.document_statuses.
StatusView(p) ==
    [query |-> IF p.use_database THEN get_document_status(p) ELSE <<>>,
     mirror |-> p.document_statuses]

\* No _update_stage_completion call is running.
NotCompleting == pipe.pc \notin {"completion", "completion_status"}

\* _update_stage_completion is called for stage s, whatever the state of
\* the stage; its steps are update_stage_completion and
\* update_completion_status.
apply_stage_completion(s) ==
    /\ NotCompleting
    /\ applied.n < MaxApplications
    /\ pipe' = [pipe EXCEPT !.pc = "completion", !.stage = s]
    /\ applied' = [stage |-> s, prev |-> applied.stage, view |-> StatusView(pipe),
                   n |-> applied.n + 1]

CompletionNext ==
    \/ \E s \in Stages : apply_stage_completion(s) /\ UNCHANGED <<qvars, call, started, runs, db, retry, breaker>>
    \/ update_stage_completion(TRUE) /\ UNCHANGED <<qvars, pvars>>
    \/ update_completion_status(TRUE) /\ UNCHANGED <<qvars, pvars>>

SpecCompletion == PipelineInit /\ [][CompletionNext]_vars

\* process_document_background is the entry point of every run; a later run
\* for the same document starts over the stores the earlier run left.
process_document_rerun ==
    /\ pipe.pc = "done"
    /\ pipe.nruns < MaxRuns
    /\ pipe' = [pipe EXCEPT !.pc = "start", !.stage = 0, !.attempt = 0,
                            !.results = [s \in Stages |-> "none"],
                            !.invoked = {}, !.written = {}, !.failed = {},
                            !.nruns = @ + 1]

RunsNext ==
    \/ PipelineStableNext
    \/ process_document_rerun /\ UNCHANGED <<qvars, pvars>>

SpecRuns == PipelineInit /\ [][RunsNext]_vars

\* The run with the status writes of the tools object succeeding or failing.
\* A failed write leaves the status as it was and raises; the except block of
\* process_document_background logs a raise of its own status write and the
\* run ends.
tools_write(p, status, written) ==
    IF written THEN tools_update_document_status(p, status) ELSE p

run_start(file_exists) ==
    IF file_exists THEN pipeline_start(TRUE)
    ELSE /\ pipe.pc = "start"
         /\ pipe' = [pipe EXCEPT !.pc = "except"]

run_stage_error(written) ==
    /\ pipe.pc = "error"
    /\ pipe' = [tools_write(pipe, "failed", written) EXCEPT
                  !.pc = IF Guarded(pipe.stage) THEN "default" ELSE "except"]

run_store_results(written) ==
    /\ pipe.pc = "store"
    /\ pipe' = IF written
               THEN [tools_store_processing_results(pipe) EXCEPT !.pc = "done"]
               ELSE [pipe EXCEPT !.pc = "except"]

run_except(written) ==
    /\ pipe.pc = "except"
    /\ pipe' = [tools_write(pipe, "failed", written) EXCEPT !.pc = "done"]

RunStep(Written) ==
    \/ \E file_exists \in BOOLEAN :
          run_start(file_exists) /\ UNCHANGED <<qvars, pvars>>
    \/ \E ok \in BOOLEAN : stage_processing(ok) /\ UNCHANGED <<qvars, pvars>>
    \/ \E outcome \in Outcomes :
          retry_with_backoff(outcome) /\ UNCHANGED <<qvars, pvars>>
    \/ \E ok \in BOOLEAN : update_stage_completion(ok) /\ UNCHANGED <<qvars, pvars>>
    \/ \E ok \in BOOLEAN : update_completion_status(ok) /\ UNCHANGED <<qvars, pvars>>
    \/ \E written \in Written :
          run_stage_error(written) /\ UNCHANGED <<qvars, pvars>>
    \/ \E ok \in BOOLEAN : stage_default(ok) /\ UNCHANGED <<qvars, pvars>>
    \/ \E written \in Written :
          run_store_results(written) /\ UNCHANGED <<qvars, pvars>>
    \/ \E written \in Written :
          run_except(written) /\ UNCHANGED <<qvars, pvars>>

RunNext == RunStep(BOOLEAN)
SpecRun == PipelineInit /\ [][RunNext]_vars /\ WF_vars(RunNext)


\* ------------------------------------------------------------ JobQueue claims
qa == queue["a"]
la == last["a"]
Returned(op) == la.op = op /\ AllIdle("a")

\* C1: two dequeue_job calls whose executions overlap never both return a job
\* with the same id.
C1_DequeueExclusive == ~la.overlap

\* C2: after retry_job(job_id) returned True the job is PENDING again (so
\* that a later dequeue_job can return it).
C2_RetryMakesPending ==
    (Returned("retry") /\ la.ok) => View(qa, la.id).status = PENDING

\* C3: dequeue_job returns nothing only when no job is PENDING.
C3_DequeueFindsPending ==
    (Returned("dequeue") /\ la.job = NoJob) => PendingJobs(qa) = {}

\* Job o had a strictly higher priority than job j when the last call
\* started, by the priority field of the records and by the priority the
\* queue ordered them by (retry_job changes the second only).
Outranks(o, j) ==
    /\ View(qa, o).priority > View(qa, j).priority
    /\ la.preprio[o] > la.preprio[j]

\* C4: a job J returned by dequeue_job was PENDING before the call, no other
\* PENDING job had a strictly higher priority, and J is stored PROCESSING
\* after the call.
C4_DequeueHighestPending ==
    (Returned("dequeue") /\ la.job # NoJob) =>
        /\ la.id \in la.pend
        /\ \A o \in la.pend : ~Outranks(o, la.id)
        /\ View(qa, la.id).status = PROCESSING

\* Every job dictionary there is: the Redis records, the dictionaries of
\* fallback_queue, the locals of the running coroutines.
JobDicts(i) ==
    ({queue[i].redis[j] : j \in JobIds}
        \cup {queue[i].fallback_queue[j] : j \in JobIds}
        \cup {task[i][t].job : t \in Tasks}
        \cup {task[i][t].ujob : t \in Tasks}) \ {NoJob}

\* C5: in every reachable state, under any interleaving of the queue's
\* operations, 0 <= retry_count <= max_retries for every job.
C5_RetryCountBounded ==
    \A job \in JobDicts("a") :
        0 <= job.retry_count /\ job.retry_count <= job.max_retries

\* C5 witness: a job whose retries are used up (retry_count = max_retries >= 1)
\* and on which one more retry_job call has returned.
C5_Witness ==
    \E j \in JobIds :
        /\ View(qa, j).max_retries >= 1
        /\ View(qa, j).retry_count = View(qa, j).max_retries
        /\ nretry["a"][j] > View(qa, j).max_retries

C7_RetryLowersPriority ==
    (Returned("retry") /\ la.ok) => QueuePriority(qa, la.id) < la.preprio[la.id]

\* What a caller sees of a returned call.
Result(c) == [op |-> c.op, id |-> c.id, ok |-> c.ok, job |-> c.job]

\* C8: the same calls return the same results on the Redis backend and on
\* the in-process backend, call by call.
C8_BackendsAgree ==
    (started = Inst /\ AllIdle("a") /\ AllIdle("b")) =>
        Result(last["a"]) = Result(last["b"])

\* C9: enqueue_job returns a job id whatever Redis does during the call, and
\* get_job afterwards returns that job, PENDING and with retry_count 0.
C9_EnqueueThenGet ==
    Returned("enqueue") =>
        /\ la.ok /\ la.id \in JobIds
        /\ View(qa, la.id) # NoJob
        /\ View(qa, la.id).status = PENDING
        /\ View(qa, la.id).retry_count = 0

\* C9 witness: an enqueue_job has returned on a queue whose Redis raised
\* during the call: the job is in fallback_queue and not in the sorted set.
C9_Witness ==
    /\ Returned("enqueue")
    /\ qa.redis_available
    /\ qa.fallback_queue[la.id] # NoJob
    /\ la.id \notin qa.zmembers

\* --------------------------------------------------------- pipeline claims
\* Preprocessing, OCR extraction and LLM processing.
CriticalStages == {1, 2, 3}

\* The overall status of the document in every store that holds it.
DocumentStatuses ==
    (IF pipe.use_database THEN {pipe.documents.status} ELSE {})
    \cup (IF pipe.document_statuses = NoStatus THEN {}
          ELSE {pipe.document_statuses.status})

BestEffortStages == {4, 5}

\* The status of stage s in the store that holds the document: its row of
\* processing_stages when the database is in use, else the stage's entry in
\* tools.document_statuses.
StageRecord(s) ==
    IF pipe.use_database THEN pipe.processing_stages[s]
    ELSE pipe.document_statuses.stages[s]

\* C11: when validation or routing fails (and no critical stage does), that
\* stage is recorded failed, its default result stands in for its result,
\* every stage's processor has run, and the document ends COMPLETED.
C11_BestEffortFailureDegrades ==
    (pipe.pc = "done" /\ pipe.failed # {} /\ pipe.failed \subseteq BestEffortStages) =>
        /\ \A s \in pipe.failed :
              StageRecord(s) = "failed" /\ pipe.results[s] = "default"
        /\ pipe.invoked = Stages
        /\ DocumentStatuses = {"completed"}

\* The document's overall status does not leave FAILED in this step, in the
\* documents row and in the entry of tools.document_statuses.
StaysFailed ==
    /\ pipe.documents.status = "failed" => pipe'.documents.status = "failed"
    /\ pipe.document_statuses.status = "failed" =>
           pipe'.document_statuses.status = "failed"

\* C12: FAILED is absorbing: once the document's overall status is FAILED no
\* later step of the run changes it to another status.
C12_FailedAbsorbing == [][StaysFailed]_vars

\* UPLOADED < PREPROCESSING < OCR_EXTRACTION < LLM_PROCESSING < VALIDATION <
\* ROUTING < COMPLETED.
StatusOrder ==
    <<"uploaded", "preprocessing", "ocr_extraction", "llm_processing",
      "validation", "routing", "completed">>
StatusRank(status) == CHOOSE k \in DOMAIN StatusOrder : StatusOrder[k] = status
Ordered(status) == \E k \in DOMAIN StatusOrder : StatusOrder[k] = status

\* A change of the overall status from a to b that moves forward in the
\* order or goes to FAILED.
ForwardOrFailed(a, b) ==
    \/ a = b
    \/ b = "failed"
    \/ Ordered(a) /\ Ordered(b) /\ StatusRank(a) < StatusRank(b)

\* C13: every change of the document's overall status moves forward in the
\* order of the stages or goes to FAILED.
C13_StatusMovesForward ==
    [][/\ ForwardOrFailed(pipe.documents.status, pipe'.documents.status)
       /\ ForwardOrFailed(pipe.document_statuses.status,
                          pipe'.document_statuses.status)]_vars

\* The progress the status query computes from the stage rows, and the
\* progress held in tools.document_statuses.
DbProgress(p) == get_document_status(p).progress
MemProgress(p) == p.document_statuses.progress

\* C14: for every sequence of stage outcomes the progress reported for the
\* document never decreases during the run (here: in no step at all, so also
\* not before the document is COMPLETED or FAILED), in either store.
C14_ProgressNeverDecreases ==
    [][/\ DbProgress(pipe') >= DbProgress(pipe)
       /\ MemProgress(pipe') >= MemProgress(pipe)]_vars

\* A run in which validation failed and the run has ended, with the document
\* in both stores.
C14_Witness ==
    /\ pipe.pc = "done" /\ 4 \in pipe.failed
    /\ pipe.use_database /\ pipe.document_statuses # NoStatus
    /\ DbProgress(pipe) = 80 /\ MemProgress(pipe) = 100

\* C15: when the run has ended with the document COMPLETED, the status
\* query reports progress 100, also when validation or routing failed and
\* its default was used.
C15_CompletedReportsFull ==
    (pipe.pc = "done" /\ pipe.use_database /\ pipe.documents.status = "completed") =>
        DbProgress(pipe) = 100

\* The runs of document d that are active.
ActiveRuns(d) == {trigger \in {"background", "consumer"} : runs.run[d][trigger] = "active"}

\* C16: at any time at most one pipeline run is active for a document,
\* counting the in-process run scheduled at upload and the run a consumer
\* starts for the document's dequeued job.
C16_OneActiveRun == \A d \in Documents : Cardinality(ActiveRuns(d)) <= 1

\* What a status read returns at this moment.
StatusRead == get_document_status(pipe)

\* The overall status says that stage s has been completed.
Advanced(status, s) == Ordered(status) /\ StatusRank(status) >= StatusRank(StageNames[s])

\* C17: a status read never sees a stage record completed while the
\* document's overall status has not advanced for that stage, nor the
\* overall status advanced for a stage whose record is not completed.
C17_ReadSeesWholeUpdate ==
    (pipe.use_database /\ StatusRead.status # "failed") =>
        \A s \in Stages :
            StatusRead.stages[s] = "completed" <=> Advanced(StatusRead.status, s)

\* C18: at every point of a run the progress and the current stage of the
\* in-memory mirror equal those the status query computes from the stage
\* records.
C18_MirrorEqualsQuery ==
    (pipe.use_database /\ pipe.document_statuses # NoStatus /\ pipe.stage \in Stages) =>
        /\ pipe.document_statuses.progress = StatusRead.progress
        /\ pipe.document_statuses.current_stage = StatusRead.current_stage

\* What the results query returns for a key.
Queried(k) ==
    LET res == get_extraction_results(k[2])
    IN  IF k[1] = "extraction_results" THEN res.extraction_results[k[3]]
        ELSE IF k[1] = "quality_scores" THEN res.quality_score
        ELSE res.routing_decision

\* The rows stored for a key.
StoredRows(k) == Rows(k[1], SubSeq(k, 2, Len(k)))

\* C19: after any sequence of sequential writes, for every key written the
\* results query returns the value of the last write that was accepted (a
\* value that is not JSON in its serialized form) and no other row of the
\* key is stored.
C19_LastWriteWins ==
    db.pc = "idle" =>
        \A k \in ResultKeys :
            db.last[k] # "none" =>
                /\ Queried(k) = ensure_serializable(db.last[k])
                /\ Len(StoredRows(k)) = 1

\* The exception's type is in the configuration's retryable set: it is one
\* of the listed types or a subclass of one.
InRetryableSet(e) ==
    \E exc_type \in retry.config.retryable_exceptions :
        e = exc_type \/ (e = "ConnectionRefusedError" /\ exc_type = "ConnectionError")

\* The attempts that raised an exception whose type is not in the retryable
\* set.
NotRetryableAttempts ==
    {n \in 1 .. Len(retry.calls) : retry.calls[n] # "ok" /\ ~InRetryableSet(retry.calls[n])}

\* C20: when an attempt raises an exception whose type is not in the
\* retryable set, the executor propagates that exception at once: the
\* attempt is the last call of the operation, the exception is the one
\* raised to the caller, and no sleep follows the attempt (the sleeps made
\* are those after the earlier attempts), whatever retries remain.
C20_NonRetryablePropagates ==
    \A n \in NotRetryableAttempts :
        /\ n = Len(retry.calls)
        /\ retry.pc = "raised" /\ retry.raised = retry.calls[n]
        /\ Len(retry.sleeps) = n - 1

\* A non-retryable exception on the second attempt, with a retry left.
C20_Witness ==
    /\ retry.config.max_retries = 2
    /\ Len(retry.calls) = 2
    /\ retry.calls[2] = "ValueError"
    /\ 2 \in NotRetryableAttempts
    /\ retry.pc = "raised"

\* Every attempt made so far raised a retryable exception.
AllRetryable ==
    \A n \in 1 .. Len(retry.calls) :
        retry.calls[n] # "ok" /\ IsException(retry.calls[n]) /\ InRetryableSet(retry.calls[n])

\* C21: when every attempt raises a retryable exception, the executor ends
\* exactly when the operation has been invoked max_retries + 1 times; it has
\* then slept max_retries times and raises the exception of the last
\* attempt.
C21_ExhaustedRetries ==
    (AllRetryable /\ retry.pc # "none") =>
        /\ Len(retry.calls) <= retry.config.max_retries + 1
        /\ retry.pc = "raised" <=>
               (retry.pc \notin {"call", "sleep"}
                  /\ Len(retry.calls) = retry.config.max_retries + 1)
        /\ retry.pc = "raised" =>
               /\ Len(retry.sleeps) = retry.config.max_retries
               /\ retry.raised = retry.calls[Len(retry.calls)]

\* Three attempts, a TimeoutError, a ConnectionRefusedError and a
\* ConnectionError, with max_retries = 2: the run has ended.
C21_Witness ==
    /\ retry.config.max_retries = 2
    /\ retry.calls = <<"TimeoutError", "ConnectionRefusedError", "ConnectionError">>
    /\ AllRetryable
    /\ retry.pc = "raised"

\* b to the power n.
RECURSIVE Pow(_, _)
Pow(b, n) == IF n = 0 THEN 1 ELSE b * Pow(b, n - 1)

\* C22: the delay slept before the k-th retry is min(initial_delay *
\* exponential_base^(k-1), max_delay), so that no sleep is longer than
\* max_delay, whatever the configuration.
C22_BackoffDelay ==
    \A k \in 1 .. Len(retry.sleeps) :
        retry.sleeps[k] = Min(retry.config.initial_delay
                                * Pow(retry.config.exponential_base, k - 1),
                              retry.config.max_delay)

\* A step in which a call of the breaker is made, and a step in which the
\* wrapped function of a call ends with the given outcome.
CallMade == breaker'.ncalls = breaker.ncalls + 1
CallEnds(outcome) ==
    /\ \E t \in Tasks : breaker.calling[t] /\ ~breaker'.calling[t]
    /\ breaker'.last.op = outcome

\* The call made in this step is rejected: the wrapped function is not
\* invoked and the caller gets the error.
Rejected == breaker'.last.op = "rejected" /\ breaker'.calling = breaker.calling

\* The breaker is open and recovery_timeout has not elapsed since the
\* open-timestamp.
OpenAndWaiting(b) ==
    /\ b.state = "open"
    /\ b.last_failure_time # None
    /\ b.now - b.last_failure_time[1] < b.recovery_timeout

\* C23: starting from closed, the failed call that makes failure_threshold
\* consecutive failures leaves the breaker open, and every call made while
\* the breaker is open and recovery_timeout has not elapsed is rejected
\* without invoking the wrapped function, the breaker staying open.
C23_OpensAndRejects ==
    [][/\ (CallEnds("error") /\ breaker'.streak >= breaker.failure_threshold) =>
              breaker'.state = "open"
       /\ (CallMade /\ OpenAndWaiting(breaker)) =>
              Rejected /\ breaker'.state = "open"]_vars

\* A call has just been rejected by a breaker that two consecutive failures
\* opened.
C23_Witness ==
    /\ breaker.failure_threshold = 2 /\ breaker.streak = 2
    /\ breaker.state = "open" /\ breaker.failure_count = 2
    /\ breaker.last = [op |-> "rejected", found |-> "open"]

\* C24: a successful call of the closed breaker sets failure_count to 0 and
\* leaves it closed, and the closed breaker opens only in a failed call that
\* completes failure_threshold failures with no success in between.
C24_SuccessResetsCount ==
    [][/\ (CallEnds("ok") /\ breaker.state = "closed") =>
              breaker'.failure_count = 0 /\ breaker'.state = "closed"
       /\ (breaker.state = "closed" /\ breaker'.state = "open") =>
              CallEnds("error") /\ breaker'.streak >= breaker.failure_threshold]_vars

\* Two failed calls with a successful call between them, threshold 2: the
\* breaker is closed with one failure counted.
C24_Witness ==
    /\ breaker.failure_threshold = 2 /\ breaker.nfailed = 2 /\ breaker.streak = 1
    /\ breaker.ncalls = 3
    /\ breaker.state = "closed" /\ breaker.failure_count = 1
    /\ breaker.last = [op |-> "error", found |-> "closed"]

\* The breaker is open and recovery_timeout has elapsed since the
\* open-timestamp.
OpenAndRecovered(b) ==
    /\ b.state = "open"
    /\ b.last_failure_time # None
    /\ b.now - b.last_failure_time[1] >= b.recovery_timeout

\* C25: a call made when the breaker is open and recovery_timeout has
\* elapsed since the open-timestamp moves the breaker to half_open and
\* invokes the wrapped function; it is not rejected.
C25_HalfOpensAfterTimeout ==
    [][(CallMade /\ OpenAndRecovered(breaker)) =>
           /\ breaker'.state = "half_open"
           /\ breaker'.last = [op |-> "invoked", found |-> "open"]
           /\ \E t \in Tasks : ~breaker.calling[t] /\ breaker'.calling[t]]_vars

\* A call let through by a breaker whose recovery_timeout of 2 had just
\* elapsed.
C25_Witness ==
    /\ breaker.recovery_timeout = 2
    /\ breaker.state = "half_open" /\ breaker.half_open_calls = 0
    /\ breaker.last = [op |-> "invoked", found |-> "open"]
    /\ breaker.now - breaker.last_failure_time[1] = 2

\* C26: a successful call of the half-open breaker that is the
\* half_open_max_calls-th since it became half_open, no failure in between,
\* leaves it closed with failure_count = 0; an earlier one leaves it
\* half_open.
C26_HalfOpenCloses ==
    [][(CallEnds("ok") /\ breaker.state = "half_open") =>
           IF breaker'.probes >= breaker.half_open_max_calls
           THEN breaker'.state = "closed" /\ breaker'.failure_count = 0
           ELSE breaker'.state = "half_open"]_vars

\* The second successful call has closed a half-open breaker whose
\* half_open_max_calls is 2.
C26_Witness ==
    /\ breaker.half_open_max_calls = 2 /\ breaker.probes = 2
    /\ breaker.state = "closed" /\ breaker.failure_count = 0
    /\ breaker.last = [op |-> "ok", found |-> "half_open"]

\* C27: a failed call of the half-open breaker leaves it open with the
\* open-timestamp set to the time of that failure, whatever the number of
\* half-open successes before it.
C27_HalfOpenFailureReopens ==
    [][(CallEnds("error") /\ breaker.state = "half_open") =>
           /\ breaker'.state = "open"
           /\ breaker'.last_failure_time = Some(breaker.now)]_vars

\* A half-open breaker with one success has failed and is open again, the
\* open-timestamp moved to the time of the failure.
C27_Witness ==
    /\ breaker.half_open_max_calls = 2 /\ breaker.probes = 1
    /\ breaker.state = "open"
    /\ breaker.last = [op |-> "error", found |-> "half_open"]
    /\ breaker.last_failure_time = Some(breaker.now) /\ breaker.now = 3

\* C28: applying the stage-completed update to a stage to which it has just
\* been applied changes nothing a status read shows: the view after the
\* second application (stage status, document status, progress, current
\* stage) is the view after the first.
C28_CompletedUpdateIdempotent ==
    (NotCompleting /\ applied.prev # 0 /\ applied.stage = applied.prev) =>
        StatusView(pipe) = applied.view

\* The update for OCR has been applied twice to a document in the database
\* and in the mirror.
C28_Witness ==
    /\ NotCompleting /\ applied.n = 2
    /\ applied.stage = 2 /\ applied.prev = 2
    /\ pipe.use_database /\ pipe.document_statuses # NoStatus
    /\ pipe.processing_stages[2] = "completed"
    /\ pipe.documents.status = "ocr_extraction"
    /\ pipe.document_statuses.progress = 40

\* C29: a failure of the validation or routing stage never sets the document's
\* overall status to FAILED at any point of the run: whenever the documents
\* row or the in-memory status says "failed", the file was missing at the
\* start of the run or one of preprocessing, OCR and LLM processing has
\* failed.
FailedBeforeStages == pipe.stage = 0

C29_BestEffortNeverFailsDocument ==
    "failed" \in DocumentStatuses =>
        FailedBeforeStages \/ pipe.failed \cap CriticalStages # {}

\* C30: for every (document, stage) record the status only moves
\* pending -> processing -> completed or failed: no step of any run moves a
\* completed or failed stage back to processing or pending, or a processing
\* stage back to pending.
StageRank(status) ==
    CASE status = "none" -> 0
      [] status = "pending" -> 1
      [] status = "processing" -> 2
      [] status \in {"completed", "failed"} -> 3

StageMovesForward ==
    \A s \in Stages :
        StageRank(pipe'.processing_stages[s]) >= StageRank(pipe.processing_stages[s])

C30_StageNeverMovesBack == [][StageMovesForward]_vars

\* C31: the first time a stage is marked processing for a document its stage
\* record is created if it does not exist yet: once the processing mark of a
\* stage has returned, the status query lists that stage with status
\* "processing".
ProcessingMarked == pipe.use_database /\ pipe.pc = "attempt" /\ pipe.attempt = 0

C31_StageRecordCreated ==
    ProcessingMarked =>
        get_document_status(pipe).stages[pipe.stage] = "processing"

\* C32: within one pipeline run the stages run in the order preprocessing,
\* OCR extraction, LLM processing, validation, routing: when the processor of
\* a stage has been invoked, the processor of every earlier stage has been
\* invoked, and the completed status write of every earlier stage (for a
\* defaulted best-effort stage its failed status write) has returned.
StatusWriteReturned(s) == pipe.results[s] # "none"

C32_StagesInOrder ==
    \A s \in pipe.invoked : \A t \in 1..(s - 1) :
        t \in pipe.invoked /\ StatusWriteReturned(t)

C32_Witness ==
    /\ pipe.use_database /\ pipe.invoked = Stages
    /\ pipe.results[3] = "result" /\ pipe.results[4] = "default"
    /\ pipe.processing_stages[4] = "failed" /\ pipe.stage = 5

\* C33: every pipeline run in which each processor call and each store call
\* returns or raises eventually ends with the document COMPLETED or FAILED,
\* in the documents row and in the in-memory status, for every combination of
\* stage outcomes.
TerminalStatuses == {"completed", "failed"}

RunEndedTerminal == pipe.pc = "done" /\ DocumentStatuses \subseteq TerminalStatuses

C33_RunReachesTerminalStatus == <>RunEndedTerminal

\* C34: the job enqueued for a document at upload eventually leaves PENDING
\* and reaches a terminal job status (COMPLETED or FAILED) once the
\* document's pipeline run has terminated.
UploadJobs(d) == {id \in JobIds : runs.job_data[id] = d}

JobStatusOf(id) == get_job_result(queue["a"], id, TRUE).job.status

RunTerminated(d) == runs.run[d].background = "ended"

JobTerminal(d) ==
    \A id \in UploadJobs(d) : JobStatusOf(id) \in {"completed", "failed"}

C34_JobReachesTerminalStatus ==
    \A d \in Documents : RunTerminated(d) ~> JobTerminal(d)

\* C35: after update_job_status(job_id, S) returns True, get_job(job_id)
\* returns the job with status S, including when Redis raises during the
\* update and answers again at the time of the get.
UpdateReturnsTrue(t) ==
    /\ task["a"][t].op = "update"
    /\ task'["a"][t].pc = "idle"
    /\ last'["a"].op = "update" /\ last'["a"].ok

UpdateVisible ==
    \A t \in Tasks :
        UpdateReturnsTrue(t) =>
            View(queue'["a"], task["a"][t].id).status = task["a"][t].status

C35_UpdateThenGet == [][UpdateVisible]_vars

\* C36: in every reachable state of a circuit breaker with
\* failure_threshold >= 1, under any interleaving of calls: state = closed
\* implies failure_count < failure_threshold, and state = open implies
\* failure_count >= failure_threshold with last_failure_time recorded.
C36_BreakerStateInvariant ==
    /\ breaker.state = "closed" =>
           breaker.failure_count < breaker.failure_threshold
    /\ breaker.state = "open" =>
           /\ breaker.failure_count >= breaker.failure_threshold
           /\ Truthy(breaker.last_failure_time)

C36_Witness ==
    /\ breaker.state = "open" /\ breaker.failure_threshold = 2
    /\ breaker.failure_count > breaker.failure_threshold
    /\ breaker.last = [op |-> "error", found |-> "open"]

\* C37: a call rejected because the breaker is open does not invoke the
\* wrapped function and leaves state, failure_count, half_open_calls and
\* last_failure_time unchanged, so rejected calls never postpone recovery.
CallRejected == CallMade /\ breaker'.last.op = "rejected"

RejectionChangesNothing ==
    CallRejected =>
        /\ breaker'.calling = breaker.calling
        /\ breaker'.state = breaker.state
        /\ breaker'.failure_count = breaker.failure_count
        /\ breaker'.half_open_calls = breaker.half_open_calls
        /\ breaker'.last_failure_time = breaker.last_failure_time

C37_RejectedCallLeavesBreaker == [][RejectionChangesNothing]_vars

C37_Witness ==
    /\ breaker.last = [op |-> "rejected", found |-> "open"]
    /\ breaker.state = "open" /\ breaker.failure_count = 2
    /\ breaker.recovery_timeout = 2
    /\ breaker.now > breaker.last_failure_time[1]

\* C38: when two writes of a quality score, routing decision or extraction
\* result for the same key interleave (delete, delete, insert, insert), the
\* store ends with exactly one row for that key: whenever no write is in
\* progress, every key that has been written has exactly one row.
NoWriteInProgress == \A w \in Tasks : db.writer[w].pc = "idle"

C38_InterleavedWritesOneRow ==
    NoWriteInProgress =>
        \A k \in ResultKeys : db.last[k] # "none" => Len(StoredRows(k)) = 1

\* C39: a stage status update called without metadata leaves the stage
\* record's stored metadata unchanged; in particular the completed update
\* issued by the pipeline, which passes no metadata, does not erase metadata
\* stored earlier for that stage.
UpdateWithoutMetadata ==
    /\ db'.nwrites = db.nwrites + 1
    /\ db'.stage_call.op = "update"
    /\ db'.stage_call.metadata = None

MetadataUnchanged ==
    UpdateWithoutMetadata =>
        db'.stage_rows[db'.stage_call.stage].metadata =
            db.stage_rows[db'.stage_call.stage].metadata

C39_UpdateKeepsMetadata == [][MetadataUnchanged]_vars

=============================================================================
